---- MODULE Spec2Model ----
(***************************************************************************)
(* A model of src/main.rs of paulkernfeld/compass: the busy-polling        *)
(* executor (spin_on), the BoolFuture adapter, the I2C register-read       *)
(* transaction get_compass, the TIM6 one-pulse delay, and the control loop *)
(* that merges the two streams with futures::stream::select.               *)
(*                                                                         *)
(* One step of the model is one resumption segment of the single thread:   *)
(* the code between two consecutive suspension points of an async fn,      *)
(* including the BoolFuture poll that ends it, together with what the      *)
(* enclosing combinators (Then, Map, Select, ForEach, spin_on) do with the *)
(* result.  The hardware (the timer's update event) is a separate process. *)
(***************************************************************************)
EXTENDS Integers, Sequences, FiniteSets, TLC

VARIABLES
    \* ---- the program ----
    main,        \* position in main(): "seeding" | "looping" | "unreachable" | "panic"
    ctl,         \* position of the thread inside the current top-level poll
    strategy,    \* which release of futures-util's Select is linked
    flag,        \* Select's round-robin state
    first,       \* the stream poll_inner polls first in the current cycle
    ended,       \* per branch: the (fused) stream has returned None
    ev,          \* the item ForEach hands to the closure
    fut,         \* the async-fn futures: spin_on's get_compass and the slot of each Then
    last_mag, position_xy_m, timer_cycle, leds,
    \* ---- peripheral registers ----
    cr2, txdr,   \* I2C1 CR2 and TXDR (ISR and RXDR are read-only inputs)
    sensor,      \* the magnetometer's six output registers, read through RXDR
    arr, cr1, sr,\* TIM6 ARR, CR1 (opm, cen), SR (uif)
    \* ---- history variables, used only to state properties ----
    buslog,      \* bus operations of the transaction started last
    timlog,      \* timer operations of the delay run started last
    inflight,    \* transactions started and not yet through their 6th byte
    woke,        \* the waker was called during the current top-level poll
    intransit,   \* events completed by a branch and not yet consumed
    polled,      \* which branches the current select cycle has polled, in order
    bfDone,      \* the BoolFutures of each current run that have reported Ready
    repolled,    \* some future was polled after it reported Ready
    \* ---- harnesses for the pure parts ----
    preds, bfPos, bfTrace,   \* BoolFuture driven by a predicate sequence
    dbuf, dout,              \* decode of a 6-byte buffer
    ain, aout                \* angle_to_direction applied to an angle

progvars == <<main, ctl, strategy, flag, first, ended, ev, fut,
              last_mag, position_xy_m, timer_cycle, leds>>
busvars  == <<cr2, txdr, sensor>>
timvars  == <<arr, cr1, sr>>
histvars == <<buslog, timlog, inflight, woke, intransit, polled, bfDone, repolled>>
harnvars == <<preds, bfPos, bfTrace, dbuf, dout, ain, aout>>
vars == <<progvars, busvars, timvars, histvars, harnvars>>

(***************************************************************************)
(* Bounds of the model.                                                    *)
(***************************************************************************)
NumFrames == 2       \* how many of the sample frames the sensor may present
MaxPreds  == 5       \* longest predicate sequence fed to the adapter harness
MaxAngle  == 40      \* angles given to angle_to_direction: -MaxAngle..MaxAngle units

(***************************************************************************)
(* Program constants.                                                      *)
(***************************************************************************)
MAGNETOMETER == 30   \* 0b001_1110
OUT_X_H_M    == 3
TIMER_MS     == 100
TIMER_S      == 100  \* 0.1, in thousandths
BufLen       == 6    \* [0u8; 6]
ByteMax      == 255  \* u8
Mod16        == 65536 \* u16 arithmetic

Branches == {"sensor", "timer"}
Owners   == {"seed", "sensor", "timer"}
Other(b) == IF b = "sensor" THEN "timer" ELSE "sensor"

Min(a, b) == IF a < b THEN a ELSE b

\* Frames of the sensor's six output registers (X_H, X_L, Z_H, Z_L, Y_H, Y_L).
FrameTable ==
    << <<1, 0, 0, 0, 255, 255>>,      \* X = 256, Z = 0, Y = -1
       <<255, 156, 0, 1, 0, 100>>,    \* X = -100, Z = 1, Y = 100
       <<0, 100, 0, 0, 0, 0>>,        \* X = 100, Z = 0, Y = 0
       <<0, 0, 0, 5, 0, 0>> >>        \* X = 0, Z = 5, Y = 0
Frames == {FrameTable[i] : i \in 1..Min(NumFrames, Len(FrameTable))}

(***************************************************************************)
(* inefficient::BoolFuture::poll.  vals are the values successive          *)
(* evaluations of the predicate return during this poll.                   *)
(***************************************************************************)
\* variant: the predicate is evaluated again before Ready is reported
BoolFuturePollTwice(vals) ==
    [ready |-> vals[1] /\ vals[2],
     wakes |-> IF vals[1] /\ vals[2] THEN 0 ELSE 1,
     evals |-> IF vals[1] THEN 2 ELSE 1]

\* variant: Pending is returned without calling the waker
BoolFuturePollNoWake(vals) ==
    [ready |-> vals[1], wakes |-> 0, evals |-> 1]

\* variant: Ready is reported whatever the predicate returned
BoolFuturePollEager(vals) ==
    [ready |-> TRUE, wakes |-> 0, evals |-> 1]

BoolFuturePoll(vals) ==
    IF vals[1]
      THEN [ready |-> TRUE,  wakes |-> 0, evals |-> 1]
      ELSE [ready |-> FALSE, wakes |-> 1, evals |-> 1]

\* The predicate reads a live register bit: every evaluation in one poll sees b.
Live(b) == <<b, b>>

(***************************************************************************)
(* get_compass: register values and the decode of the buffer.             *)
(***************************************************************************)
CR2Reset ==
    [start |-> 0, stop |-> 0, sadd |-> 0, rd_wrn |-> 0, nbytes |-> 0, autoend |-> 0]

\* variant: cr2.modify in place of cr2.write, AUTOEND left as it was
CR2StartModify(r) ==
    [r EXCEPT !.start = 1, !.sadd = MAGNETOMETER, !.rd_wrn = 0, !.nbytes = 1]

\* i2c1.cr2.write(...): every field not named takes its reset value.
CR2Start(r) ==
    [CR2Reset EXCEPT !.start = 1, !.sadd = MAGNETOMETER, !.rd_wrn = 0,
                     !.nbytes = 1, !.autoend = 0]

\* i2c1.cr2.modify(...): the fields not named keep their value.
CR2Restart(r) ==
    [r EXCEPT !.start = 1, !.nbytes = BufLen, !.rd_wrn = 1, !.autoend = 1]

RECURSIVE BitOr(_, _)
BitOr(a, b) ==
    IF a = 0 THEN b
    ELSE IF b = 0 THEN a
    ELSE (IF a % 2 = 1 \/ b % 2 = 1 THEN 1 ELSE 0) + 2 * BitOr(a \div 2, b \div 2)

Shl8(h)      == (h * 256) % Mod16          \* u16 << 8
Add16(a, b)  == (a + b) % Mod16            \* u16 + u16 (wrapping build)
Overflows16(a, b) == a + b >= Mod16        \* the same sum panics in a checked build
AsI16(u)     == IF u >= Mod16 \div 2 THEN u - Mod16 ELSE u
Word(h, l)   == AsI16(Add16(Shl8(h), l))

\* variant: the buffer taken as x, y, z
DecodeXYZOrder(b) == <<Word(b[1], b[2]), Word(b[3], b[4]), Word(b[5], b[6])>>

\* (x, y, z) from the buffer x_h x_l z_h z_l y_h y_l
Decode(b) == <<Word(b[1], b[2]), Word(b[5], b[6]), Word(b[3], b[4])>>


(***************************************************************************)
(* mag_to_angle and angle_to_direction.  Angles are kept in units of 22.5  *)
(* degrees, rounded down: every bucket boundary of angle_to_direction is a *)
(* multiple of 22.5 degrees, so the bucket of an angle is the bucket of    *)
(* its floor.  tan(22.5) = sqrt(2) - 1 and tan(67.5) = sqrt(2) + 1 are     *)
(* compared in integers by squaring.                                       *)
(***************************************************************************)
\* the angle of (ax, ay), ax >= 0, ay >= 0, not both 0, is at least k * 22.5 degrees
AtLeast(ax, ay, k) ==
    CASE k = 1 -> ~((ay + ax) * (ay + ax) < 2 * ax * ax)
      [] k = 2 -> ay >= ax
      [] k = 3 -> ~(ay <= ax \/ (ay - ax) * (ay - ax) < 2 * ax * ax)
      [] k = 4 -> ax = 0

QuadFloor(ax, ay) == Cardinality({k \in 1..4 : AtLeast(ax, ay, k)})
QuadExact(ax, ay) == ay = 0 \/ ax = ay \/ ax = 0
QuadCeil(ax, ay)  == IF QuadExact(ax, ay) THEN QuadFloor(ax, ay) ELSE QuadFloor(ax, ay) + 1


\* floor(atan2(y, x) / PI * 180 / 22.5), atan2 in (-180, 180], atan2(0, 0) = 0
Atan2Units(y, x) ==
    IF x = 0 /\ y = 0 THEN 0
    ELSE IF y >= 0
      THEN IF x >= 0 THEN QuadFloor(x, y) ELSE 8 - QuadCeil(-x, y)
      ELSE IF x >= 0 THEN -QuadCeil(x, -y) ELSE -(8 - QuadFloor(-x, -y))

mag_to_angle(mag) == Atan2Units(mag[2], mag[1])

\* (angle + 360.0) % 360.0: 360 degrees are 16 units; % keeps the dividend's sign
Rem(a, n) == IF a >= 0 THEN a % n ELSE -((-a) % n)
NormalizeAngle(a) == Rem(a + 16, 16)

DirectionOf ==
    <<"South", "Southeast", "East", "Northeast", "North", "Northwest", "West",
      "Southwest", "South">>

\* variant: the match has no arm 8
angle_to_directionNoArm8(a) ==
    LET angle_rounded == IF a + 1 < 0 THEN 0 ELSE (a + 1) \div 2
    IN  IF angle_rounded <= 7 THEN DirectionOf[angle_rounded + 1] ELSE "panic"

\* angle_chunked = (angle + 22.5) / 45.0; `as u32` truncates and saturates at 0
angle_to_direction(a) ==
    LET angle_rounded == IF a + 1 < 0 THEN 0 ELSE (a + 1) \div 2
    IN  IF angle_rounded <= 8 THEN DirectionOf[angle_rounded + 1] ELSE "panic"

(***************************************************************************)
(* The f32 arithmetic of the timer branch, on the values it can meet:      *)
(* finite values in thousandths, or NaN.                                   *)
(***************************************************************************)
FNaN      == [nan |-> TRUE, v |-> 0]
FVal(n)   == [nan |-> FALSE, v |-> n]
ISqrt(n)  == CHOOSE r \in 0..n : r * r <= n /\ (r + 1) * (r + 1) > n
\* norm = (x * x + y * y).sqrt(), here of integers
Norm(x, y) == ISqrt(x * x + y * y)
\* norm < f32::EPSILON: for an integer norm, exactly norm = 0
BelowEpsilon(norm) == norm = 0
\* x / norm * TIMER_S in thousandths; 0.0 / 0.0 is NaN
StepOf(x, norm) == IF norm = 0 THEN FNaN ELSE FVal((x * TIMER_S) \div norm)
FAdd(p, q) == IF p.nan \/ q.nan THEN FNaN ELSE FVal(p.v + q.v)

(***************************************************************************)
(* The combinators of futures-util and spin_on, as main() composes them.   *)
(***************************************************************************)
NoFut  == [phase |-> "none",  idx |-> 0, buffer |-> <<>>]
NewFut == [phase |-> "start", idx |-> 0, buffer |-> <<>>]
NoEv   == [tag |-> "none", mag |-> <<0, 0, 0>>]

\* variant: the source stream is exhausted
RepeatNextNone == "None"
\* stream::repeat(()).poll_next: always Some(())
RepeatNext == "Some"

\* variant: the closure is called on every poll_next
ThenNeverHasFuture(f) == FALSE
\* Then::poll_next polls the future in its slot if there is one
ThenHasFuture(f) == f.phase # "none"

\* variant: the completed future stays in the slot
ThenKeep(f) == f
\* variant: the next future is created as soon as one completes
ThenRestart(f) == NewFut
\* Then::poll_next on Ready: self.future.set(None)
ThenClear(f) == NoFut

\* .map(Either::Left) on the sensor stream, .map(Either::Right) on the timer stream
\* variant: both streams mapped with Either::Right
TagAllRight(b, item) == [tag |-> "Right", mag |-> item]
Tag(b, item) == [tag |-> IF b = "sensor" THEN "Left" ELSE "Right", mag |-> item]

\* Select::poll_next: stream1 (the sensor) goes first unless the flag is set.
\* Releases up to 0.3.15 flip the flag when the stream polled first yields;
\* later releases (select_with_strategy, round_robin) toggle it on every call.
SelectStrategies == {"flip_on_yield", "toggle_each_poll"}
\* variant: stream1 always first
SelectSensorFirst(f) == "sensor"
\* variant: stream2 always first
SelectTimerFirst(f) == "timer"
SelectFirst(f) == IF f THEN "timer" ELSE "sensor"
SelectOnEnter(s, f) == IF s = "toggle_each_poll" THEN ~f ELSE f
SelectOnYield(s, f, c) == IF s = "flip_on_yield" /\ c = "pollA" THEN ~f ELSE f

\* variant: the loop returns after one poll
SpinOnReturnsAlways(r) == TRUE
\* spin_on's loop: return the output at Ready, poll again at Pending
SpinOnReturns(r) == r = "Ready"

\* the future the thread is polling
Polled ==
    IF main = "seeding" THEN (IF ctl = "seedpoll" THEN "seed" ELSE "nobody")
    ELSE IF main # "looping" THEN "nobody"
    ELSE IF ctl = "pollA" THEN first
    ELSE IF ctl = "pollB" THEN Other(first)
    ELSE "nobody"

\* a step that leaves future o running inside the current poll
Continue(o, f) ==
    /\ fut' = [fut EXCEPT ![o] = f]
    /\ UNCHANGED <<main, ctl, flag, first, ev, intransit, woke, polled>>

\* future o returns Pending; r is its BoolFuture's poll result
Suspend(o, r) ==
    /\ woke' = (woke \/ r.wakes > 0)
    /\ UNCHANGED <<fut, flag, first, ev, intransit>>
    /\ IF o = "seed"
         THEN /\ main' = IF SpinOnReturns("Pending") THEN "looping" ELSE main
              /\ ctl' = "exec"
              /\ UNCHANGED polled
         ELSE /\ main' = main
              /\ ctl' = IF ctl = "pollA" THEN "pollB" ELSE "exec"
              /\ polled' = Append(polled, [b |-> o, r |-> "Pending"])

\* future o, now in state f, returns Ready(item)
Complete(o, f, item) ==
    /\ UNCHANGED <<woke, first>>
    /\ IF o = "seed"
         THEN /\ fut' = [fut EXCEPT ![o] = f]
              /\ main' = IF SpinOnReturns("Ready") THEN "looping" ELSE main
              /\ ctl' = "exec"
              /\ UNCHANGED <<flag, ev, intransit, polled>>
         ELSE /\ fut' = [fut EXCEPT ![o] = ThenClear(f)]
              /\ flag' = SelectOnYield(strategy, flag, ctl)
              /\ ev' = Tag(o, item)
              /\ intransit' = Append(intransit, [src |-> o, mag |-> item])
              /\ polled' = Append(polled, [b |-> o, r |-> "Ready"])
              /\ ctl' = "deliver"
              /\ main' = main

\* Select::poll_next is entered: by ForEach's first poll_next of a top-level
\* poll, and again after the closure has handled an item
SelectEnter ==
    /\ first' = SelectFirst(flag)
    /\ flag' = SelectOnEnter(strategy, flag)
    /\ polled' = <<>>
    /\ ctl' = "pollA"


(***************************************************************************)
(* The state after aux14::init() and init_timer(): the registers at their  *)
(* reset values, TIM6 in one-pulse mode with the counter disabled, and the *)
(* future spin_on is about to drive created but not yet polled.            *)
(***************************************************************************)
\* tim6.cr1.write(|w| w.opm().set_bit().cen().clear_bit())
InitTimerCR1 == [opm |-> 1, cen |-> 0]

HarnessIdle ==
    /\ preds = <<>> /\ bfPos = 0 /\ bfTrace = <<>>
    /\ dbuf = <<>> /\ dout = <<>>
    /\ ain = 0 /\ aout = "none"

ProgInit ==
    /\ main = "seeding"
    /\ ctl = "exec"
    /\ strategy \in SelectStrategies
    /\ flag = FALSE
    /\ first = "sensor"
    /\ ended = [b \in Branches |-> FALSE]
    /\ ev = NoEv
    /\ fut = [o \in Owners |-> IF o = "seed" THEN NewFut ELSE NoFut]
    /\ last_mag = <<0, 0, 0>>
    /\ position_xy_m = <<FVal(0), FVal(0)>>
    /\ timer_cycle = 0
    /\ leds = {}
    /\ cr2 = CR2Reset
    /\ txdr = 0
    /\ sensor = FrameTable[1]
    /\ arr = 0
    /\ cr1 = InitTimerCR1
    /\ sr = [uif |-> FALSE]
    /\ buslog = <<>>
    /\ timlog = <<>>
    /\ inflight = 0
    /\ woke = FALSE
    /\ intransit = <<>>
    /\ polled = <<>>
    /\ bfDone = [o \in Owners |-> {}]
    /\ repolled = FALSE

Init == ProgInit /\ HarnessIdle

(***************************************************************************)
(* spin_on::spin_on: the loop polls the future it was given.               *)
(***************************************************************************)
SpinPoll ==
    /\ ctl = "exec"
    /\ main \in {"seeding", "looping"}
    /\ woke' = FALSE
    /\ IF main = "seeding"
         THEN /\ IF fut["seed"].phase = "done"
                   THEN main' = "panic" /\ repolled' = TRUE /\ ctl' = ctl
                   ELSE main' = main /\ repolled' = repolled /\ ctl' = "seedpoll"
              /\ UNCHANGED <<first, flag, polled>>
         ELSE /\ SelectEnter
              /\ UNCHANGED <<main, repolled>>
    /\ UNCHANGED <<strategy, ended, ev, fut, last_mag, position_xy_m, timer_cycle,
                   leds, busvars, timvars, buslog, timlog, inflight, intransit,
                   bfDone, harnvars>>

(***************************************************************************)
(* Then::poll_next with no future in flight: take the next () of           *)
(* stream::repeat and call the closure, which creates the async fn's       *)
(* future.  (A future left in the slot after Ready would be polled again.) *)
(***************************************************************************)
ThenPoll(b) ==
    /\ Polled = b
    /\ b \in Branches
    /\ ~ThenHasFuture(fut[b]) \/ fut[b].phase = "done"
    /\ UNCHANGED <<strategy, flag, first, ev, last_mag, position_xy_m, timer_cycle,
                   leds, busvars, timvars, buslog, timlog, inflight, woke,
                   intransit, harnvars>>
    /\ IF fut[b].phase = "done"
         THEN /\ main' = "panic" /\ repolled' = TRUE
              /\ UNCHANGED <<ctl, ended, fut, polled, bfDone>>
         ELSE IF ended[b] \/ RepeatNext # "Some"
           THEN /\ ended' = [ended EXCEPT ![b] = TRUE]
                /\ polled' = Append(polled, [b |-> b, r |-> "None"])
                /\ IF ctl = "pollA"
                     THEN ctl' = "pollB" /\ main' = main
                     ELSE IF ended[first]
                       THEN ctl' = "exec" /\ main' = "unreachable"
                       ELSE ctl' = "exec" /\ main' = main
                /\ UNCHANGED <<fut, bfDone, repolled>>
           ELSE /\ fut' = [fut EXCEPT ![b] = NewFut]
                /\ bfDone' = [bfDone EXCEPT ![b] = {}]
                /\ UNCHANGED <<main, ctl, ended, polled, repolled>>

(***************************************************************************)
(* get_compass, one resumption segment per action.                         *)
(***************************************************************************)
LogBus(op, reg, data) == [op |-> op, reg |-> reg, data |-> data]

\* the first poll: the START for the write of one byte
GcStart(o) ==
    /\ Polled = o
    /\ o \in {"seed", "sensor"}
    /\ fut[o].phase = "start"
    /\ cr2' = CR2Start(cr2)
    /\ \E f \in Frames : sensor' = f
    /\ buslog' = <<LogBus("CR2", cr2', 0)>>
    /\ inflight' = Min(inflight + 1, 2)
    /\ Continue(o, [fut[o] EXCEPT !.phase = "txis"])
    /\ UNCHANGED <<strategy, ended, last_mag, position_xy_m, timer_cycle, leds,
                   txdr, timvars, timlog, bfDone, repolled, harnvars>>

\* BoolFuture(|| i2c1.isr.read().txis().bit_is_set()).await, then the TXDR write
GcTxisOn(o, txis) ==
    /\ Polled = o
    /\ o \in {"seed", "sensor"}
    /\ fut[o].phase = "txis"
    /\ repolled' = (repolled \/ <<"txis", 0>> \in bfDone[o])
    /\ LET r == BoolFuturePoll(Live(txis)) IN
       IF r.ready
         THEN /\ txdr' = OUT_X_H_M
              /\ buslog' = buslog \o <<LogBus("TXIS", CR2Reset, IF txis THEN 1 ELSE 0),
                                       LogBus("TXDR", CR2Reset, txdr')>>
              /\ bfDone' = [bfDone EXCEPT ![o] = @ \cup {<<"txis", 0>>}]
              /\ Continue(o, [fut[o] EXCEPT !.phase = "tc"])
         ELSE /\ Suspend(o, r)
              /\ UNCHANGED <<txdr, buslog, bfDone>>
    /\ UNCHANGED <<strategy, ended, last_mag, position_xy_m, timer_cycle, leds,
                   cr2, sensor, timvars, timlog, inflight, harnvars>>

GcTxis(o) == \E txis \in BOOLEAN : GcTxisOn(o, txis)

\* BoolFuture(|| i2c1.isr.read().tc().bit_is_set()).await, then the repeated START
GcTcOn(o, tc) ==
    /\ Polled = o
    /\ o \in {"seed", "sensor"}
    /\ fut[o].phase = "tc"
    /\ repolled' = (repolled \/ <<"tc", 0>> \in bfDone[o])
    /\ LET r == BoolFuturePoll(Live(tc)) IN
       IF r.ready
         THEN /\ cr2' = CR2Restart(cr2)
              /\ buslog' = buslog \o <<LogBus("TC", CR2Reset, IF tc THEN 1 ELSE 0),
                                       LogBus("CR2", cr2', 0)>>
              /\ bfDone' = [bfDone EXCEPT ![o] = @ \cup {<<"tc", 0>>}]
              /\ Continue(o, [fut[o] EXCEPT !.phase = "rxne", !.idx = 0,
                                            !.buffer = <<>>])
         ELSE /\ Suspend(o, r)
              /\ UNCHANGED <<cr2, buslog, bfDone>>
    /\ UNCHANGED <<strategy, ended, last_mag, position_xy_m, timer_cycle, leds,
                   txdr, sensor, timvars, timlog, inflight, harnvars>>

GcTc(o) == \E tc \in BOOLEAN : GcTcOn(o, tc)

\* for byte in &mut buffer: BoolFuture(rxne).await; *byte = rxdr; after the
\* sixth byte the decode and the return of (x, y, z)
GcRxneOn(o, rxne) ==
    /\ Polled = o
    /\ o \in {"seed", "sensor"}
    /\ fut[o].phase = "rxne"
    /\ repolled' = (repolled \/ <<"rxne", fut[o].idx>> \in bfDone[o])
    /\ LET r == BoolFuturePoll(Live(rxne))
           buffer == Append(fut[o].buffer, sensor[fut[o].idx + 1])
       IN
       IF r.ready
         THEN /\ buslog' = buslog \o <<LogBus("RXNE", CR2Reset, IF rxne THEN 1 ELSE 0),
                                       LogBus("RXDR", CR2Reset, 0)>>
              /\ bfDone' = [bfDone EXCEPT ![o] = @ \cup {<<"rxne", fut[o].idx>>}]
              /\ IF Len(buffer) < BufLen
                   THEN /\ Continue(o, [fut[o] EXCEPT !.idx = @ + 1,
                                                     !.buffer = buffer])
                        /\ UNCHANGED inflight
                   ELSE /\ Complete(o, [phase |-> "done", idx |-> BufLen,
                                        buffer |-> buffer], Decode(buffer))
                        /\ inflight' = IF inflight > 0 THEN inflight - 1 ELSE 0
         ELSE /\ Suspend(o, r)
              /\ UNCHANGED <<buslog, bfDone, inflight>>
    /\ UNCHANGED <<strategy, ended, last_mag, position_xy_m, timer_cycle, leds,
                   busvars, timvars, timlog, harnvars>>

GcRxne(o) == \E rxne \in BOOLEAN : GcRxneOn(o, rxne)

(***************************************************************************)
(* delay, one resumption segment per action, and TIM6's update event.      *)
(***************************************************************************)
LogTim(op, val) == [op |-> op, val |-> val]

\* variant: the delay also sets START in the bus controller's CR2
DlStartTouchesBus ==
    /\ Polled = "timer"
    /\ fut["timer"].phase = "start"
    /\ arr' = TIMER_MS
    /\ cr1' = [cr1 EXCEPT !.cen = 1]
    /\ cr2' = [cr2 EXCEPT !.start = 1, !.nbytes = 0]
    /\ timlog' = <<LogTim("ARR", arr'), LogTim("CEN", cr1.opm)>>
    /\ Continue("timer", [fut["timer"] EXCEPT !.phase = "uif"])
    /\ UNCHANGED <<strategy, ended, last_mag, position_xy_m, timer_cycle, leds,
                   txdr, sensor, sr, buslog, inflight, bfDone, repolled, harnvars>>

\* the first poll: load ARR, enable the counter
DlStart ==
    /\ Polled = "timer"
    /\ fut["timer"].phase = "start"
    /\ arr' = TIMER_MS
    /\ cr1' = [cr1 EXCEPT !.cen = 1]
    /\ timlog' = <<LogTim("ARR", arr'), LogTim("CEN", cr1.opm)>>
    /\ Continue("timer", [fut["timer"] EXCEPT !.phase = "uif"])
    /\ UNCHANGED <<strategy, ended, last_mag, position_xy_m, timer_cycle, leds,
                   busvars, sr, buslog, inflight, bfDone, repolled, harnvars>>

\* variant: the flag is not cleared
SrKeep(r) == r
\* tim6.sr.modify(|_, w| w.uif().clear_bit())
SrClear(r) == [r EXCEPT !.uif = FALSE]

\* BoolFuture(|| tim6.sr.read().uif().bit_is_set()).await, then clear the flag
DlUif ==
    /\ Polled = "timer"
    /\ fut["timer"].phase = "uif"
    /\ repolled' = (repolled \/ <<"uif", 0>> \in bfDone["timer"])
    /\ LET r == BoolFuturePoll(Live(sr.uif)) IN
       IF r.ready
         THEN /\ sr' = SrClear(sr)
              /\ timlog' = timlog \o <<LogTim("UIF", IF sr.uif THEN 1 ELSE 0),
                                       LogTim("CLR", IF sr'.uif THEN 1 ELSE 0)>>
              /\ bfDone' = [bfDone EXCEPT !["timer"] = @ \cup {<<"uif", 0>>}]
              /\ Complete("timer", [fut["timer"] EXCEPT !.phase = "done"],
                          <<0, 0, 0>>)
         ELSE /\ Suspend("timer", r)
              /\ UNCHANGED <<sr, timlog, bfDone>>
    /\ UNCHANGED <<strategy, ended, last_mag, position_xy_m, timer_cycle, leds,
                   busvars, arr, cr1, buslog, inflight, harnvars>>

\* The counter reaches ARR: the update event sets UIF; in one-pulse mode the
\* counter stops (CEN is cleared by hardware).
TimerUpdate ==
    /\ cr1.cen = 1
    /\ sr' = [sr EXCEPT !.uif = TRUE]
    /\ cr1' = IF cr1.opm = 1 THEN [cr1 EXCEPT !.cen = 0] ELSE cr1
    /\ UNCHANGED <<progvars, busvars, arr, histvars, harnvars>>

(***************************************************************************)
(* The closure of for_each, then ForEach's next poll_next of the merged    *)
(* stream (the future::ready(()) the closure returns completes at once).   *)
(***************************************************************************)
Consume ==
    /\ ctl = "deliver"
    /\ main = "looping"
    /\ LET mag  == IF ev.tag = "Left" THEN ev.mag ELSE last_mag
           x    == last_mag[1]
           y    == last_mag[2]
           norm == Norm(x, y)
           dir  == angle_to_direction(NormalizeAngle(mag_to_angle(mag)))
       IN
       /\ last_mag' = mag
       /\ timer_cycle' = IF ev.tag = "Right" THEN (timer_cycle + 1) % 2
                         ELSE timer_cycle
       /\ position_xy_m' =
            IF ev.tag = "Right" /\ BelowEpsilon(norm)
              THEN <<FAdd(position_xy_m[1], StepOf(x, norm)),
                     FAdd(position_xy_m[2], StepOf(y, norm))>>
              ELSE position_xy_m
       /\ IF dir = "panic"
            THEN /\ main' = "panic"
                 /\ UNCHANGED <<leds, ctl, first, flag, polled>>
            ELSE /\ leds' = {dir}
                 /\ main' = main
                 /\ SelectEnter
    /\ ev' = NoEv
    /\ intransit' = IF intransit # <<>> THEN Tail(intransit) ELSE intransit
    /\ UNCHANGED <<strategy, ended, fut, busvars, timvars, buslog, timlog,
                   inflight, woke, bfDone, repolled, harnvars>>

Next ==
    \/ SpinPoll
    \/ \E b \in Branches : ThenPoll(b)
    \/ \E o \in {"seed", "sensor"} : GcStart(o)
    \/ \E o \in {"seed", "sensor"} : GcTxis(o)
    \/ \E o \in {"seed", "sensor"} : GcTc(o)
    \/ \E o \in {"seed", "sensor"} : GcRxne(o)
    \/ DlStart
    \/ DlUif
    \/ TimerUpdate
    \/ Consume

Spec == Init /\ [][Next]_vars


(***************************************************************************)
(* The adapter driven alone: a caller polls one BoolFuture until it        *)
(* reports Ready, the predicate returning preds[1], preds[2], ... on its   *)
(* successive evaluations.                                                 *)
(***************************************************************************)
RECURSIVE BoolSeqs(_)
BoolSeqs(n) ==
    IF n = 0 THEN {<<>>}
    ELSE LET shorter == BoolSeqs(n - 1) IN
         shorter \cup {Append(q, b) : q \in {t \in shorter : Len(t) = n - 1},
                                      b \in BOOLEAN}

InitAdapter ==
    /\ ProgInit /\ strategy = "flip_on_yield"
    /\ preds \in BoolSeqs(MaxPreds)
    /\ bfPos = 0 /\ bfTrace = <<>>
    /\ dbuf = <<>> /\ dout = <<>>
    /\ ain = 0 /\ aout = "none"

AdapterPoll ==
    /\ bfPos < Len(preds)
    /\ IF bfTrace = <<>> THEN TRUE ELSE ~bfTrace[Len(bfTrace)].ready
    /\ LET r == BoolFuturePoll(SubSeq(preds, bfPos + 1, Len(preds)) \o <<FALSE>>)
       IN  /\ bfTrace' = Append(bfTrace, r)
           /\ bfPos' = bfPos + r.evals
    /\ UNCHANGED <<progvars, busvars, timvars, histvars, preds, dbuf, dout, ain, aout>>

SpecAdapter == InitAdapter /\ [][AdapterPoll]_vars

(***************************************************************************)
(* The decode of get_compass applied to a buffer.                          *)
(***************************************************************************)
Bytes == 0..ByteMax
EdgeBytes == {0, 1, 128, ByteMax}
DecodeInputs ==
    {<<h, l, l, h, ByteMax - h, ByteMax - l>> : h \in Bytes, l \in Bytes}
      \cup [1..BufLen -> EdgeBytes]

InitDecode ==
    /\ ProgInit /\ strategy = "flip_on_yield"
    /\ preds = <<>> /\ bfPos = 0 /\ bfTrace = <<>>
    /\ dbuf \in DecodeInputs
    /\ dout = <<>>
    /\ ain = 0 /\ aout = "none"

DecodeStep ==
    /\ dbuf # <<>>
    /\ dout = <<>>
    /\ dout' = Decode(dbuf)
    /\ UNCHANGED <<progvars, busvars, timvars, histvars, preds, bfPos, bfTrace, dbuf,
                   ain, aout>>

SpecDecode == InitDecode /\ [][DecodeStep]_vars

(***************************************************************************)
(* angle_to_direction applied to an angle, in units of 22.5 degrees: unit a *)
(* stands for the angles in [a * 22.5, (a + 1) * 22.5).                    *)
(***************************************************************************)
\* `angle_chunked as u32` truncates toward zero when the truncated value fits
\* u32, which it does for every angle above -67.5 degrees (chunked > -1.0).  At
\* or below that the cast saturates to 0 (Rust 1.45 and later) and is undefined
\* behaviour in the earlier compilers that have async fn: any arm may be taken.
CastFits(a) == a >= -2
AngleOutcomes(a) ==
    IF CastFits(a) THEN {angle_to_direction(a)}
    ELSE {angle_to_direction(a), "panic"} \cup {DirectionOf[i] : i \in 1..Len(DirectionOf)}

AngleInputs == (0 - MaxAngle)..MaxAngle

InitAngle ==
    /\ ProgInit /\ strategy = "flip_on_yield"
    /\ preds = <<>> /\ bfPos = 0 /\ bfTrace = <<>>
    /\ dbuf = <<>> /\ dout = <<>>
    /\ ain \in AngleInputs
    /\ aout = "none"

AngleStep ==
    /\ aout = "none"
    /\ aout' \in AngleOutcomes(ain)
    /\ UNCHANGED <<progvars, busvars, timvars, histvars, preds, bfPos, bfTrace, dbuf,
                   dout, ain>>

SpecAngle == InitAngle /\ [][AngleStep]_vars

(***************************************************************************)
(* Fairness: the thread never stops (spin_on is a busy loop), and each     *)
(* flag a transaction waits on is eventually seen set by a poll of that    *)
(* wait, which is what "eventually becomes true and stays true until the   *)
(* driver acts on it" gives a driver that keeps polling.                   *)
(***************************************************************************)
ThreadNext ==
    \/ SpinPoll
    \/ \E b \in Branches : ThenPoll(b)
    \/ \E o \in {"seed", "sensor"} : GcStart(o) \/ GcTxis(o) \/ GcTc(o) \/ GcRxne(o)
    \/ DlStart
    \/ DlUif
    \/ Consume

\* a poll of the wait the transaction is suspended at sees its flag set
FlagSeenSet ==
    \E o \in {"seed", "sensor"} :
        GcTxisOn(o, TRUE) \/ GcTcOn(o, TRUE) \/ GcRxneOn(o, TRUE)

FairSpec == Spec /\ WF_vars(ThreadNext) /\ SF_vars(FlagSeenSet)

\* the busy loop alone: nothing is assumed of the hardware
LoopSpec == Spec /\ WF_vars(ThreadNext)

(***************************************************************************)
(* Properties.                                                             *)
(***************************************************************************)
IsPrefix(p, q) == Len(p) <= Len(q) /\ p = SubSeq(q, 1, Len(p))

ExpectedBusLog ==
    << [op |-> "CR2",  data |-> 0,
        reg |-> [start |-> 1, stop |-> 0, sadd |-> 30, rd_wrn |-> 0, nbytes |-> 1,
                autoend |-> 0]],
       [op |-> "TXIS", data |-> 1, reg |-> CR2Reset],
       [op |-> "TXDR", data |-> 3, reg |-> CR2Reset],
       [op |-> "TC",   data |-> 1, reg |-> CR2Reset],
       [op |-> "CR2",  data |-> 0,
        reg |-> [start |-> 1, stop |-> 0, sadd |-> 30, rd_wrn |-> 1, nbytes |-> 6,
                autoend |-> 1]] >>
    \o [i \in 1..12 |-> IF i % 2 = 1 THEN [op |-> "RXNE", data |-> 1, reg |-> CR2Reset]
                                     ELSE [op |-> "RXDR", data |-> 0, reg |-> CR2Reset]]

\* C1: the bus operations of every get_compass transaction, the seeding one and
\* every one of the stream, are a prefix of the fixed sequence (CR2 start/write/1
\* byte/no autoend, TXIS seen set, TXDR = 0x03, TC seen set, CR2 start/read/6
\* bytes/autoend with the same address, then six times RXNE seen set and one RXDR
\* read), and a transaction that is over has performed all of it, whatever CR2
\* held when it began.
C1_TransactionOrder ==
    /\ IsPrefix(buslog, ExpectedBusLog)
    /\ \A o \in {"seed", "sensor"} :
         /\ fut[o].phase = "txis" => Len(buslog) = 1
         /\ fut[o].phase = "tc" => Len(buslog) = 3
         /\ fut[o].phase = "rxne" => Len(buslog) = 5 + 2 * fut[o].idx
    /\ inflight = 0 => buslog \in {<<>>, ExpectedBusLog}
    /\ (ctl = "deliver" /\ ev.tag = "Left") => buslog = ExpectedBusLog

\* a transaction of the stream has completed, begun with the CR2 the previous one left
C1_Witness ==
    /\ main = "looping" /\ ctl = "deliver" /\ ev.tag = "Left"
    /\ last_mag # <<0, 0, 0>>
    /\ buslog = ExpectedBusLog

FirstTrue(q) ==
    IF \E i \in 1..Len(q) : q[i]
      THEN CHOOSE i \in 1..Len(q) : q[i] /\ \A j \in 1..(i - 1) : ~q[j]
      ELSE 0

\* C2: every poll of BoolFuture evaluates the predicate once and is Ready exactly
\* when that evaluation returned true; for every predicate sequence the adapter
\* completes at the first poll whose predicate value is true, and not before.
C2_ReadyIffTrue ==
    /\ \A i \in 1..Len(bfTrace) :
         /\ bfTrace[i].evals = 1
         /\ bfTrace[i].ready = preds[i]
         /\ bfTrace[i].ready <=> i = FirstTrue(preds)
    /\ bfPos = Len(bfTrace)
    /\ FirstTrue(preds) # 0 => Len(bfTrace) <= FirstTrue(preds)

C2_Witness ==
    /\ preds = <<FALSE, FALSE, TRUE, FALSE, TRUE>>
    /\ Len(bfTrace) = 3
    /\ bfTrace[3].ready

\* C3: a poll that reports Pending has called the waker exactly once and the
\* poll that reports Ready has not called it; k false values followed by true
\* give k Pending results with one wake each, then one Ready with none.
C3_WakeOnPending ==
    /\ \A i \in 1..Len(bfTrace) :
         bfTrace[i].wakes = IF bfTrace[i].ready THEN 0 ELSE 1
    /\ (bfTrace # <<>> /\ bfTrace[Len(bfTrace)].ready) =>
         /\ \A i \in 1..(Len(bfTrace) - 1) : ~bfTrace[i].ready /\ bfTrace[i].wakes = 1
         /\ Len(bfTrace) = FirstTrue(preds)
    /\ (preds = <<FALSE, FALSE, TRUE>> /\ Len(bfTrace) = 3) =>
         bfTrace = << [ready |-> FALSE, wakes |-> 1, evals |-> 1],
                      [ready |-> FALSE, wakes |-> 1, evals |-> 1],
                      [ready |-> TRUE,  wakes |-> 0, evals |-> 1] >>

C3_Witness ==
    /\ preds = <<FALSE, FALSE, TRUE>>
    /\ Len(bfTrace) = 3

\* C4: at most one get_compass transaction is in flight: no transaction is
\* started while another has been started and has not read its sixth byte.
C4_OneTransaction ==
    /\ inflight <= 1
    /\ ~(fut["seed"].phase \in {"txis", "tc", "rxne"}
         /\ fut["sensor"].phase \in {"txis", "tc", "rxne"})
    /\ inflight = 1 <=> \E o \in {"seed", "sensor"} : fut[o].phase \in {"txis", "tc", "rxne"}

\* a transaction of the stream is reading bytes after the seeding run is over,
\* while the timer branch is waiting
C4_Witness ==
    /\ main = "looping" /\ fut["seed"].phase = "done"
    /\ fut["sensor"].phase = "rxne" /\ fut["sensor"].idx = 3
    /\ fut["timer"].phase = "uif"
    /\ last_mag # <<0, 0, 0>>
    /\ inflight = 1


\* C5: the merge drops, duplicates and reorders nothing: every event a branch
\* completes is handed to the consumer, once, with its own tag and (for the
\* sensor) the sample decoded from its own transaction, before the next event is
\* completed; so when N get_compass runs and M delay runs have completed the
\* consumer has received, or is receiving, exactly N Left and M Right events.
C5_NoEventLost ==
    /\ ctl = "deliver" =>
         /\ Len(intransit) = 1
         /\ ev.tag = (IF intransit[1].src = "sensor" THEN "Left" ELSE "Right")
         /\ ev.mag = intransit[1].mag
         /\ intransit[1].src = "sensor" => ev.mag = Decode(sensor)
    /\ ctl # "deliver" => intransit = <<>> /\ ev = NoEv
    /\ \A b \in Branches : ~ended[b]

\* a timer event is being delivered after a sensor event and an earlier timer
\* event have been consumed
C5_Witness ==
    /\ ctl = "deliver" /\ ev.tag = "Right"
    /\ timer_cycle = 1
    /\ last_mag # <<0, 0, 0>>
    /\ intransit = <<[src |-> "timer", mag |-> <<0, 0, 0>>]>>

C6_CycleOrder ==
    (main = "looping" /\ ctl \in {"pollA", "pollB", "deliver"}) =>
        /\ Len(polled) <= 2
        /\ ctl = "pollA" => polled = <<>>
        /\ ctl = "pollB" => polled = <<[b |-> first, r |-> "Pending"]>>
        /\ ctl = "deliver" =>
             \/ polled = <<[b |-> first, r |-> "Ready"]>>
             \/ polled = <<[b |-> first, r |-> "Pending"],
                           [b |-> Other(first), r |-> "Ready"]>>
        /\ ctl = "deliver" =>
             ev.tag = (IF polled[Len(polled)].b = "sensor" THEN "Left" ELSE "Right")

C7_RunsToCompletion ==
    /\ (inflight > 0) ~> (inflight = 0 /\ buslog = ExpectedBusLog)
    /\ [][buslog' # buslog =>
            \/ (Len(buslog') > Len(buslog) /\ IsPrefix(buslog, buslog'))
            \/ (Len(buslog') = 1 /\ buslog \in {<<>>, ExpectedBusLog})]_vars

\* a transaction of the loop is in flight while a timer event is delivered
C7_Witness ==
    /\ main = "looping" /\ ctl = "deliver" /\ ev.tag = "Right"
    /\ fut["sensor"].phase = "tc"
    /\ inflight = 1

ExpectedTimLog ==
    << [op |-> "ARR", val |-> 100], [op |-> "CEN", val |-> 1],
       [op |-> "UIF", val |-> 1],   [op |-> "CLR", val |-> 0] >>

\* C8: every delay run writes ARR with the tick count, sets CEN with OPM set,
\* sees UIF set, clears UIF, in this order; it completes only after the clear, so
\* UIF is clear when a run has completed; and a run writes ARR only after the run
\* before it has cleared UIF.
C8_DelayOrder ==
    /\ IsPrefix(timlog, ExpectedTimLog)
    /\ fut["timer"].phase = "uif" => Len(timlog) = 2 /\ cr1.opm = 1
    /\ fut["timer"].phase \in {"none", "start", "done"} =>
         /\ timlog \in {<<>>, ExpectedTimLog}
         /\ ~sr.uif
         /\ cr1.cen = 0
    /\ (ctl = "deliver" /\ ev.tag = "Right") =>
         timlog = ExpectedTimLog /\ fut["timer"].phase = "none"

\* the second delay run has completed
C8_Witness ==
    /\ ctl = "deliver" /\ ev.tag = "Right"
    /\ timer_cycle = 1
    /\ timlog = ExpectedTimLog
    /\ ~sr.uif

SignExtend16(v) == IF v >= 32768 THEN v - 65536 ELSE v

\* C9: for every buffer B, get_compass returns (X, Y, Z) with X, Z, Y the 16-bit
\* two's-complement values of B[0]<<8|B[1], B[2]<<8|B[3], B[4]<<8|B[5]; the
\* buffer 01 00 00 00 FF FF gives X = 256, Z = 0, Y = -1; and (high<<8)+low
\* does not overflow 16 bits and equals (high<<8)|low.
C9_Decode ==
    dout # <<>> =>
      /\ dout[1] = SignExtend16(BitOr(dbuf[1] * 256, dbuf[2]))
      /\ dout[3] = SignExtend16(BitOr(dbuf[3] * 256, dbuf[4]))
      /\ dout[2] = SignExtend16(BitOr(dbuf[5] * 256, dbuf[6]))
      /\ dbuf = <<1, 0, 0, 0, 255, 255>> => dout = <<256, -1, 0>>
      /\ \A i \in {1, 3, 5} :
           /\ ~Overflows16(Shl8(dbuf[i]), dbuf[i + 1])
           /\ Shl8(dbuf[i]) = dbuf[i] * 256
           /\ Add16(Shl8(dbuf[i]), dbuf[i + 1]) = BitOr(dbuf[i] * 256, dbuf[i + 1])

C9_Witness ==
    /\ dbuf = <<1, 0, 0, 0, 255, 255>>
    /\ dout = <<256, -1, 0>>

\* C10: no future is polled after it has reported Ready: not a BoolFuture inside
\* a transaction or a delay, not a get_compass or delay run, and not the future
\* given to spin_on, which returns at the first Ready.
C10_SingleShot ==
    /\ ~repolled
    /\ main # "panic"
    /\ Polled \in Owners => fut[Polled].phase # "done"
    /\ \A o \in Owners :
         fut[o].phase \in {"txis", "tc", "rxne", "uif"} =>
             <<fut[o].phase, fut[o].idx>> \notin bfDone[o]
    /\ fut["seed"].phase = "done" => main # "seeding"

\* the loop keeps polling after runs of both branches and the seeding run are over
C10_Witness ==
    /\ main = "looping" /\ fut["seed"].phase = "done"
    /\ timer_cycle = 1 /\ last_mag # <<0, 0, 0>>
    /\ Polled = "sensor" /\ fut["sensor"].phase = "rxne" /\ fut["sensor"].idx = 5
    /\ bfDone["sensor"] # {}

\* one resumption segment of a get_compass run / of a delay run
GcStep == \E o \in {"seed", "sensor"} : GcStart(o) \/ GcTxis(o) \/ GcTc(o) \/ GcRxne(o)
DlStep == DlStart \/ DlUif

\* C11: every step of a get_compass run leaves the timer's registers (ARR, CR1,
\* SR), the delay run's phase and its operation log unchanged; every step of a
\* delay run, and the creation of a delay run by its stream, leaves the bus
\* controller's registers (CR2, TXDR, the data behind RXDR), the phase, index and
\* buffer of every transaction and the bus log unchanged.  So a poll of one
\* branch while the other is suspended at a wait changes nothing of the other.
C11_RegisterOwnership ==
    /\ [][(GcStep \/ ThenPoll("sensor")) =>
            /\ UNCHANGED <<timvars, timlog>>
            /\ fut'["timer"] = fut["timer"]
            /\ bfDone'["timer"] = bfDone["timer"]]_vars
    /\ [][(DlStep \/ ThenPoll("timer")) =>
            /\ UNCHANGED <<busvars, buslog, inflight>>
            /\ fut'["sensor"] = fut["sensor"] /\ fut'["seed"] = fut["seed"]
            /\ bfDone'["sensor"] = bfDone["sensor"]]_vars

\* the timer branch has just been polled (Pending) while the transaction is
\* suspended at its TC wait, after a sensor poll while the delay was running
C11_Witness ==
    /\ main = "looping" /\ ctl = "exec"
    /\ polled = <<[b |-> "sensor", r |-> "Pending"], [b |-> "timer", r |-> "Pending"]>>
    /\ fut["sensor"].phase = "tc" /\ cr2.nbytes = 1 /\ txdr = OUT_X_H_M
    /\ fut["timer"].phase = "uif" /\ cr1.cen = 1 /\ arr = TIMER_MS

\* a poll of the wait future o is suspended at evaluates the predicate to false / true
FalsePoll(o) ==
    \/ o \in {"seed", "sensor"}
         /\ (GcTxisOn(o, FALSE) \/ GcTcOn(o, FALSE) \/ GcRxneOn(o, FALSE))
    \/ o = "timer" /\ ~sr.uif /\ DlUif
TruePoll(o) ==
    \/ o \in {"seed", "sensor"}
         /\ (GcTxisOn(o, TRUE) \/ GcTcOn(o, TRUE) \/ GcRxneOn(o, TRUE))
    \/ o = "timer" /\ sr.uif /\ DlUif

WaitPhases == {"txis", "tc", "rxne", "uif"}

\* C12: a poll that finds the predicate false returns Pending with a wake
\* request, keeps the operation in the same phase, performs no register
\* operation, delivers nothing and reports no failure; an operation leaves a
\* wait, and the bus registers and the bus log change after the first START,
\* only in a poll that finds the predicate true.  So while a predicate stays
\* false the operation hangs at its wait: with TXIS never set TXDR is never
\* written and RXDR never read, and from a state where the delay waits and UIF
\* is clear no step clears the flag, completes the delay or delivers a tick.
C12_HangNotFailure ==
    /\ [][\A o \in Owners : FalsePoll(o) =>
            /\ fut' = fut
            /\ woke'
            /\ UNCHANGED <<busvars, timvars, buslog, timlog, inflight, ev, intransit,
                           last_mag, leds>>
            /\ main' \in {"seeding", "looping"}
            /\ ctl' # "deliver"]_vars
    /\ [][\A o \in Owners :
            (fut[o].phase \in WaitPhases
               /\ <<fut'[o].phase, fut'[o].idx>> # <<fut[o].phase, fut[o].idx>>)
            => TruePoll(o)]_vars
    /\ [][(buslog' # buslog \/ txdr' # txdr \/ cr2' # cr2) =>
            \E o \in {"seed", "sensor"} : GcStart(o) \/ TruePoll(o)]_vars
    /\ [][(fut["timer"].phase = "uif" /\ ~sr.uif) =>
            /\ fut'["timer"].phase = "uif"
            /\ timlog' = timlog
            /\ ~(ctl' = "deliver" /\ ev'.tag = "Right")]_vars

\* the transaction of the stream is still at its TXIS wait after a full
\* top-level poll that found TXIS clear, while timer ticks have been delivered
C12_Witness ==
    /\ main = "looping" /\ ctl = "exec" /\ woke
    /\ polled = <<[b |-> "timer", r |-> "Pending"], [b |-> "sensor", r |-> "Pending"]>>
    /\ fut["sensor"].phase = "txis" /\ Len(buslog) = 1
    /\ timer_cycle = 1

\* the full circle the control loop normalises to: [0, 360) degrees
InDomain(a) == a \in 0..15

\* C13 as stated: angle_to_direction returns an octant exactly for the angles
\* of [0, 360) degrees and panics for every other angle, negative ones included.
C13_PanicOutsideDomain ==
    aout # "none" => (aout # "panic" <=> InDomain(ain))

\* what the code does: the guard fires from 382.5 degrees upward only; the
\* angles of [360, 382.5) and every angle from -67.5 degrees up to 0 return South
C13_Behaviour ==
    aout # "none" =>
      /\ InDomain(ain) => aout = DirectionOf[((ain + 1) \div 2) + 1]
      /\ ain >= 17 => aout = "panic"
      /\ ain \in {-2, -1, 16} => aout = "South"

\* a negative angle, inside [-22.5, 0), has returned South
C13_Witness == ain = -1 /\ aout = "South"

BusWaits == {"txis", "tc", "rxne"}

\* C14: in the merged loop, if the timer's update event occurs whenever the
\* counter stays enabled (UIF then stays set until the driver clears it), every
\* started delay run delivers its tick to the control loop's closure,
\* whatever the sensor branch does: stalled for ever at a wait or completing a
\* transaction in every poll.  And if the polls of a transaction's waits
\* eventually see the flags set, every started transaction of the stream
\* delivers its sample, even if a delay run completes in every poll.
C14_BranchProgress ==
    /\ WF_vars(TimerUpdate) =>
         ((fut["timer"].phase = "uif") ~> (ctl = "deliver" /\ ev.tag = "Right"))
    /\ SF_vars(FlagSeenSet) =>
         ((main = "looping" /\ fut["sensor"].phase \in BusWaits)
            ~> (ctl = "deliver" /\ ev.tag = "Left"))

\* the second tick is delivered while the stream's first transaction has been
\* waiting for TXIS since the loop began
C14_Witness ==
    /\ main = "looping" /\ ctl = "deliver" /\ ev.tag = "Right"
    /\ timer_cycle = 1
    /\ fut["sensor"].phase = "txis" /\ last_mag = <<0, 0, 0>>

\* the top-level poll spin_on made last has returned Pending
TopLevelPending ==
    /\ ctl = "exec"
    /\ \/ main = "seeding" /\ fut["seed"].phase # "start"
       \/ main = "looping" /\ polled # <<>>

\* C15: every poll of the future given to spin_on that returns Pending, of the
\* seeding get_compass run and of the for_each consumer alike, has called the
\* waker during that poll; in the merged loop such a poll ends with both
\* branches Pending, and the waker has been called by the time the first of them
\* has returned Pending.
C15_NoLostWakeup ==
    /\ TopLevelPending => woke
    /\ (main = "looping" /\ ctl = "exec" /\ polled # <<>>) =>
         /\ Len(polled) = 2
         /\ \A i \in 1..2 : polled[i].r = "Pending"
         /\ polled[1].b # polled[2].b
    /\ (main = "looping" /\ ctl = "pollB") => woke

\* a poll of the consumer has returned Pending after it delivered events, the
\* sensor transaction waiting for its fourth byte and the delay for UIF
C15_Witness ==
    /\ TopLevelPending /\ woke
    /\ main = "looping" /\ timer_cycle = 1 /\ last_mag # <<0, 0, 0>>
    /\ fut["sensor"].phase = "rxne" /\ fut["sensor"].idx = 3
    /\ fut["timer"].phase = "uif"

\* C16: in the merged loop a branch has at most one element in flight and the
\* combinators hold at most one completed event, only on its way to the
\* consumer: an event exists exactly while the closure is about to handle it,
\* the branch that yielded it then has no element in flight, and the next step
\* of the thread is the closure's (no branch is polled and no top-level poll
\* begins in between); and a branch's element is created only when its slot is
\* empty and no event is waiting to be handled.
C16_NoBuffering ==
    /\ [](/\ Len(intransit) <= 1
          /\ intransit # <<>> <=> (main = "looping" /\ ctl = "deliver")
          /\ intransit # <<>> =>
               /\ fut[intransit[1].src].phase = "none"
               /\ ev.tag = (IF intransit[1].src = "sensor" THEN "Left" ELSE "Right")
          /\ inflight <= 1
          /\ main = "seeding" => \A b \in Branches : fut[b].phase = "none")
    /\ [][intransit # <<>> => (Consume \/ TimerUpdate)]_vars
    /\ [][(intransit # <<>> /\ intransit' # intransit) =>
            (intransit' = <<>> /\ woke' = woke /\ fut' = fut)]_vars
    /\ [][\A b \in Branches :
            (fut'[b] # fut[b] /\ fut'[b].phase = "start") =>
               (fut[b].phase = "none" /\ intransit = <<>> /\ ThenPoll(b))]_vars

\* a sample is on its way to the closure after a tick was handled; the sensor's
\* slot is empty and the delay run is in flight
C16_Witness ==
    /\ main = "looping" /\ ctl = "deliver" /\ ev.tag = "Left"
    /\ intransit = <<[src |-> "sensor", mag |-> ev.mag]>>
    /\ fut["sensor"].phase = "none" /\ fut["timer"].phase = "uif"
    /\ timer_cycle = 1

\* the element of branch b has been started: the first CR2 write of the
\* get_compass run, the ARR load and counter enable of the delay run
Started(b) == fut[b].phase \in WaitPhases

\* C17 as stated: when a branch's event is yielded, the branch's next element
\* has been started in the same poll cycle, before the closure handles the event.
C17_ImmediateRestart ==
    (main = "looping" /\ ctl = "deliver") => Started(intransit[1].src)

\* C17, amended: the step that yields a branch's event leaves the branch with no
\* element and writes neither CR2 nor ARR nor CR1, and the closure handles the
\* event in that state; the branch's next element is created and started in a
\* later poll cycle, at the branch's next poll, when no event is waiting; and
\* when the branch was polled first in the cycle that yielded, the other branch
\* is the one polled first in the next cycle.
C17_LazyRestart ==
    /\ []((main = "looping" /\ ctl = "deliver") =>
            /\ fut[intransit[1].src].phase = "none"
            /\ polled[Len(polled)] = [b |-> intransit[1].src, r |-> "Ready"])
    /\ [][(ctl # "deliver" /\ ctl' = "deliver") => UNCHANGED <<cr2, arr, cr1>>]_vars
    /\ [][Consume => UNCHANGED <<fut, busvars, timvars, buslog, timlog>>]_vars
    /\ [][\A b \in Branches :
            (fut[b].phase \in {"none", "start"} /\ Started(b)') =>
               /\ main = "looping" /\ Polled = b /\ intransit = <<>>
               /\ \A i \in 1..Len(polled) : polled[i] = [b |-> Other(b), r |-> "Pending"]]_vars
    /\ [][(ctl = "deliver" /\ ctl' = "pollA" /\ Len(polled) = 1) =>
            first' = Other(polled[1].b)]_vars

\* after a sample has been handled, the sensor's next element is created at
\* the sensor's next poll, the timer having been polled first in this cycle
C17_Witness ==
    /\ main = "looping" /\ ctl = "pollB"
    /\ polled = <<[b |-> "timer", r |-> "Pending"]>>
    /\ fut["sensor"].phase = "start"
    /\ last_mag # <<0, 0, 0>>
    /\ buslog = ExpectedBusLog

\* C18 as stated: the timer-tick branch divides by norm and updates the position
\* only when norm >= EPSILON, so the position is never the result of a division
\* by a zero norm (0.0 / 0.0, a NaN), not even at a tick that arrives while
\* last_mag is still (0, 0, 0).
C18_GuardedDivide ==
    /\ ~position_xy_m[1].nan /\ ~position_xy_m[2].nan
    /\ position_xy_m # <<FVal(0), FVal(0)>> =>
         ~BelowEpsilon(Norm(last_mag[1], last_mag[2]))

\* a tick handled while last_mag was (0, 0, 0) has made the position NaN
C18_Witness ==
    /\ position_xy_m = <<FNaN, FNaN>>
    /\ last_mag = <<0, 0, 0>>
    /\ timer_cycle = 1 /\ leds = {"South"}

\* The octant of the vector (x, y), read off the plane: angle 0 (the positive x
\* axis) is South and the octants follow counter-clockwise in 45-degree
\* sectors centred on the axes and the diagonals.  A vector is within 22.5
\* degrees of the x axis iff |y| < (sqrt(2) - 1) |x|, and within 22.5 degrees
\* of the y axis iff |x| < (sqrt(2) - 1) |y|.
Sq(n) == n * n
Mag(n) == IF n < 0 THEN 0 - n ELSE n
ExpectedOctant(mag) ==
    LET x == mag[1]
        y == mag[2]
        nearX == Sq(Mag(y) + Mag(x)) < 2 * Sq(Mag(x))
        nearY == Sq(Mag(x) + Mag(y)) < 2 * Sq(Mag(y))
    IN  IF x = 0 /\ y = 0 THEN "South"
        ELSE IF nearX THEN (IF x > 0 THEN "South" ELSE "North")
        ELSE IF nearY THEN (IF y > 0 THEN "East" ELSE "West")
        ELSE IF y > 0 THEN (IF x > 0 THEN "Southeast" ELSE "Northeast")
        ELSE (IF x > 0 THEN "Southwest" ELSE "Northwest")

\* C19: last_mag is (0, 0, 0) until an event has been handled and changes only
\* when the closure handles a sensor event, to that event's sample, which is the
\* decode of the frame the transaction read; a timer event leaves it unchanged;
\* every call of the closure, for either tag, leaves exactly one indicator lit,
\* the octant of the new last_mag; so whenever any indicator is lit, exactly one
\* is, and it is the octant of last_mag.
C19_HeadingFromLatest ==
    /\ [](/\ leds = {} => last_mag = <<0, 0, 0>>
          /\ leds # {} => leds = {ExpectedOctant(last_mag)}
          /\ main # "panic")
    /\ [][last_mag' # last_mag => (Consume /\ ev.tag = "Left")]_vars
    /\ [][Consume =>
            /\ last_mag' = (IF intransit[1].src = "sensor" THEN intransit[1].mag
                            ELSE last_mag)
            /\ intransit[1].src = "sensor" => last_mag' = Decode(sensor)
            /\ leds' = {ExpectedOctant(last_mag')}]_vars
    /\ [][leds' # leds => Consume]_vars

\* a tick has been handled after two different samples: the indicator still
\* shows the octant of the later sample
C19_Witness ==
    /\ main = "looping" /\ ctl = "pollA" /\ timer_cycle = 1
    /\ last_mag = <<-100, 100, 1>>
    /\ leds = {"Northeast"}
    /\ sensor = FrameTable[1]
    /\ fut["sensor"].phase = "rxne"

\* C20: neither stream ever reports end-of-stream, so the merged stream never
\* ends, the for_each future given to spin_on never reports Ready, and main
\* never reaches the unreachable!() after the executor call: once in the loop,
\* main stays in the loop, every top-level poll of the consumer returning
\* Pending.
C20_LoopNeverCompletes ==
    /\ [](/\ main # "unreachable"
          /\ \A b \in Branches : ~ended[b]
          /\ \A i \in 1..Len(polled) : polled[i].r # "None")
    /\ [][main = "looping" => main' = "looping"]_vars
    /\ [][(main = "looping" /\ ctl # "exec" /\ ctl' = "exec") =>
            (Len(polled') = 2 /\ \A i \in 1..2 : polled'[i].r = "Pending")]_vars

\* the loop is still running after both samples and two ticks have been
\* handled, back in spin_on after a Pending
C20_Witness ==
    /\ main = "looping" /\ ctl = "exec" /\ Len(polled) = 2
    /\ timer_cycle = 0 /\ position_xy_m[1].nan
    /\ last_mag = <<256, -1, 0>> /\ leds = {"South"}
    /\ fut["sensor"].phase = "rxne" /\ fut["timer"].phase = "uif"

====
